---- MODULE Spec2Model ----
(***************************************************************************)
(* Model of the spam-filter mail pipeline: smtp_server.py (message         *)
(* decoding and the handle_DATA filter stages), ai_service.py (classifier  *)
(* adapter and batch keyword extraction), database.py (rule lists and      *)
(* inbox) and the list-management routes of web_app.py.                    *)
(*                                                                         *)
(* Text is modelled as a sequence of Unicode code points, bytes as a       *)
(* sequence of integers 0..255.                                            *)
(***************************************************************************)
EXTENDS Integers, Sequences, FiniteSets, TLC

VARIABLES
    whitelist,   \* table whitelist(email), rows in insertion order
    blacklist,   \* table blacklist(email)
    keywords,    \* table keywords(keyword)
    inbox,       \* table inbox, in insertion order
    lastId,      \* AUTOINCREMENT counter of inbox
    credential,  \* config.SILICONFLOW_API_KEY
    pc,          \* per connection: position of its handle_DATA coroutine
    env,         \* per connection: the envelope being processed
    msg,         \* per connection: (subject, body) returned by parse_subject_body
    seen,        \* per connection: the rule lists as returned by get_list
    outcome,     \* per connection: how its exchange with the classifier ended
    response,    \* per connection: value returned by handle_DATA
    requests,    \* per connection: HTTP requests its invocation sent to the classifier
    adminOps,    \* number of list-management requests served
    extracted,   \* extracted_keywords of the last successful /admin/extract-keywords
    fnArg,       \* argument of the function under study (function specs)
    fnRet        \* its result, or Pending

vars == <<whitelist, blacklist, keywords, inbox, lastId, credential, pc, env, msg,
          seen, outcome, response, requests, adminOps, extracted, fnArg, fnRet>>

pipelineVars == <<whitelist, blacklist, keywords, inbox, lastId, credential,
                  pc, env, msg, seen, outcome, response, requests, adminOps,
                  extracted>>

Pending == [kind |-> "pending"]
NoArg == [kind |-> "none"]

-----------------------------------------------------------------------------
(* Text helpers                                                            *)

BACKSLASH == 92
LOWER_U == 117
REPLACEMENT == 65533

RECURSIVE Concat(_)
Concat(ss) == IF ss = <<>> THEN <<>> ELSE Head(ss) \o Concat(Tail(ss))

\* str.lower(), on the code points the model uses: A-Z map to a-z, the
\* digits, punctuation and CJK characters have no case.
LowerChar(c) == IF c \in 65..90 THEN c + 32 ELSE c
Lower(s) == [i \in 1..Len(s) |-> LowerChar(s[i])]

\* Py_UNICODE_ISSPACE: what str.strip() removes and what \s matches
IsSpace(c) ==
    \/ c \in 9..13
    \/ c \in 28..32
    \/ c \in {133, 160, 5760, 8232, 8233, 8239, 8287, 12288}
    \/ c \in 8192..8202

RECURSIVE LStrip(_)
LStrip(s) == IF s # <<>> /\ IsSpace(Head(s)) THEN LStrip(Tail(s)) ELSE s

RECURSIVE RStrip(_)
RStrip(s) ==
    IF s # <<>> /\ IsSpace(s[Len(s)]) THEN RStrip(SubSeq(s, 1, Len(s) - 1)) ELSE s

Strip(s) == RStrip(LStrip(s))

\* Python's  needle in haystack  for str
IsSubstring(needle, hay) ==
    \E i \in 0..(Len(hay) - Len(needle)) :
        \A j \in 1..Len(needle) : hay[i + j] = needle[j]

-----------------------------------------------------------------------------
(* smtp_server.force_unicode                                               *)

HexVal(c) ==
    IF c \in 48..57 THEN c - 48
    ELSE IF c \in 97..102 THEN c - 87
    ELSE IF c \in 65..70 THEN c - 55
    ELSE -1

\* re.fullmatch(r'(\\u[0-9a-fA-F]{4})+', s)
IsEscapeSeq(s) ==
    /\ Len(s) > 0
    /\ Len(s) % 6 = 0
    /\ \A i \in 1..Len(s) :
          LET r == (i - 1) % 6 IN
          IF r = 0 THEN s[i] = BACKSLASH
          ELSE IF r = 1 THEN s[i] = LOWER_U
          ELSE HexVal(s[i]) >= 0

\* codecs.decode(s, 'unicode_escape') on a value made of \uXXXX groups
UnicodeEscapeDecode(s) ==
    [k \in 1..(Len(s) \div 6) |->
        4096 * HexVal(s[6 * k - 3]) + 256 * HexVal(s[6 * k - 2])
        + 16 * HexVal(s[6 * k - 1]) + HexVal(s[6 * k])]

\* Mutant: the pattern is matched at the start of the value only (re.match
\* on one group) and the leading escape is decoded.
force_unicode_prefix(s) ==
    IF Len(s) >= 6 /\ IsEscapeSeq(SubSeq(s, 1, 6))
    THEN UnicodeEscapeDecode(SubSeq(s, 1, 6)) \o SubSeq(s, 7, Len(s))
    ELSE s

force_unicode(s) ==
    IF IsEscapeSeq(s) THEN UnicodeEscapeDecode(s) ELSE s

-----------------------------------------------------------------------------
(* Values exchanged with the classifier service.  A JSON value is a record *)
(* [t, s, l, d]: its type tag and its content as text (str), as a sequence *)
(* (list) or as a function from keys (dict).                               *)

JNull == [t |-> "null", s |-> <<>>, l |-> <<>>, d |-> <<>>]
JStr(text) == [t |-> "str", s |-> text, l |-> <<>>, d |-> <<>>]
JList(items) == [t |-> "list", s |-> <<>>, l |-> items, d |-> <<>>]
JDict(f) == [t |-> "dict", s |-> <<>>, l |-> <<>>, d |-> f]
EmptyDict == JDict(<<>>)

\* Outcome of evaluating a Python expression: a value, or an exception
Ok(x) == [ok |-> TRUE, v |-> x, exc |-> "none"]
Raise(e) == [ok |-> FALSE, v |-> JNull, exc |-> e]

\* x.get(key, default)
DictGet(x, key, default) ==
    IF x.t = "dict"
    THEN Ok(IF key \in DOMAIN x.d THEN x.d[key] ELSE default)
    ELSE Raise("AttributeError")

\* x[0]
Index0(x) ==
    IF x.t = "list"
    THEN IF Len(x.l) > 0 THEN Ok(x.l[1]) ELSE Raise("IndexError")
    ELSE IF x.t = "str"
    THEN IF Len(x.s) > 0 THEN Ok(JStr(<<x.s[1]>>)) ELSE Raise("IndexError")
    ELSE IF x.t = "dict" THEN Raise("KeyError")
    ELSE Raise("TypeError")

\* x.strip()
StripOf(x) ==
    IF x.t = "str" THEN Ok(JStr(Strip(x.s))) ELSE Raise("AttributeError")

\* result.get('choices', [{}])[0].get('message', {}).get('content', '').strip()
ReplyContent(result) ==
    LET a == DictGet(result, "choices", JList(<<EmptyDict>>))
        b == IF a.ok THEN Index0(a.v) ELSE a
        c == IF b.ok THEN DictGet(b.v, "message", EmptyDict) ELSE b
        d == IF c.ok THEN DictGet(c.v, "content", JStr(<<>>)) ELSE c
    IN  IF d.ok THEN StripOf(d.v) ELSE d

\* What one HTTP exchange with the service can produce:
\*   timeout     the client's total timeout expires (asyncio.TimeoutError)
\*   conn_error  the connection fails (aiohttp.ClientError / RequestException)
\*   status      a response with an HTTP status; raise_for_status() raises
\*               for a status >= 400
\*   bad_json    a success status whose body is not JSON
\*   json        a success status carrying the JSON value  result
TimeoutOutcome == [kind |-> "timeout", status |-> 0, result |-> JNull]
ConnErrorOutcome == [kind |-> "conn_error", status |-> 0, result |-> JNull]
StatusOutcome(code) == [kind |-> "status", status |-> code, result |-> JNull]
BadJsonOutcome == [kind |-> "bad_json", status |-> 200, result |-> JNull]
JsonOutcome(r) == [kind |-> "json", status |-> 200, result |-> r]
NoOutcome == [kind |-> "none", status |-> 0, result |-> JNull]

\* The body of the  async with session.post(...)  block, up to the value of
\* content (ai_service.py lines 64-71) / requests.post ... content (141-146)
ServiceContent(o) ==
    IF o.kind = "timeout" THEN Raise("TimeoutError")
    ELSE IF o.kind = "conn_error" THEN Raise("ClientError")
    ELSE IF o.status >= 400 THEN Raise("HTTPError")
    ELSE IF o.kind # "json" THEN Raise("JSONDecodeError")
    ELSE ReplyContent(o.result)

-----------------------------------------------------------------------------
(* ai_service.predict_is_spam                                              *)

NoKey == [set |-> FALSE, text |-> <<>>]
Key(text) == [set |-> TRUE, text |-> text]

YOUR == <<89, 79, 85, 82>>
SPAM_TOKEN == <<49>>

\* Mutant: the check only rejects an unset or empty key.
CredentialMissing_empty_only(key) == ~key.set \/ key.text = <<>>

\* not SILICONFLOW_API_KEY or "YOUR" in SILICONFLOW_API_KEY
CredentialMissing(key) ==
    \/ ~key.set
    \/ key.text = <<>>
    \/ IsSubstring(YOUR, key.text)

Returned(x, n) == [kind |-> "return", value |-> x, exc |-> "none", requests |-> n]
Raised(e, n) == [kind |-> "raise", value |-> 0, exc |-> e, requests |-> n]

\* Mutant: the handler catches the HTTP client's own errors only
\* (except aiohttp.ClientError), not the timeout nor a malformed reply.
predict_after_request_client_errors(o) ==
    LET c == ServiceContent(o) IN
    IF c.ok THEN Returned(IF c.v.s = SPAM_TOKEN THEN 1 ELSE 0, 1)
    ELSE IF c.exc \in {"ClientError", "HTTPError"} THEN Returned(0, 1)
    ELSE Raised(c.exc, 1)

\* Mutant: a reply that merely starts with the spam token counts as spam.
predict_after_request_prefix(o) ==
    LET c == ServiceContent(o) IN
    IF c.ok
    THEN Returned(IF Len(c.v.s) > 0 /\ c.v.s[1] = SPAM_TOKEN[1] THEN 1 ELSE 0, 1)
    ELSE Returned(0, 1)

\* Mutant: a failed call is treated as spam (fail-closed).
predict_after_request_fail_closed(o) ==
    LET c == ServiceContent(o) IN
    IF c.ok THEN Returned(IF c.v.s = SPAM_TOKEN THEN 1 ELSE 0, 1)
    ELSE Returned(1, 1)

\* try: ... return 1 if content == '1' else 0 / except Exception: return 0
predict_after_request(o) ==
    LET c == ServiceContent(o) IN
    IF c.ok THEN Returned(IF c.v.s = SPAM_TOKEN THEN 1 ELSE 0, 1)
    ELSE Returned(0, 1)

predict_is_spam(key, o) ==
    IF CredentialMissing(key) THEN Returned(0, 0)
    ELSE predict_after_request(o)

-----------------------------------------------------------------------------
(* smtp_server.parse_subject_body                                          *)
(*                                                                         *)
(* The envelope content is the raw byte string together with what the      *)
(* email library makes of it:  parsed.kind = "error" when BytesParser or   *)
(* the header access raises, else the message's subject header (absent:    *)
(* msg['subject'] is None), is_multipart(), and the parts in the order of  *)
(* msg.walk() (the message itself first), each with get_content_type(),    *)
(* get_content_charset() and get_payload(decode=True) (None for a          *)
(* container part).                                                        *)

FALLBACK_PREFIX == 1024
\* "解析错误"
PARSE_ERROR == <<35299, 26512, 38169, 35823>>
\* str(None)
NONE_TEXT == <<78, 111, 110, 101>>
TEXT_PLAIN == "text/plain"

NoCharset == [set |-> FALSE, name |-> ""]
Charset(n) == [set |-> TRUE, name |-> n]
NoPayload == [present |-> FALSE, bytes |-> <<>>]
Payload(b) == [present |-> TRUE, bytes |-> b]
NoSubject == [present |-> FALSE, text |-> <<>>]
Subject(t) == [present |-> TRUE, text |-> t]

Part(ctype, charset, payload) ==
    [ctype |-> ctype, charset |-> charset, payload |-> payload]
ParseError == [kind |-> "error", subject |-> NoSubject, multipart |-> FALSE,
               parts |-> <<>>]
Message(subject, multipart, parts) ==
    [kind |-> "message", subject |-> subject, multipart |-> multipart,
     parts |-> parts]

\* bytes.decode('utf-8', errors='replace'), for one-, two- and three-byte
\* sequences.  An invalid byte becomes U+FFFD; a three-byte lead followed by
\* one continuation byte only is one invalid sequence (one U+FFFD).  The
\* model's payloads hold no 0xE0, 0xED or 0xF0..0xF4 lead byte.
IsCont(b, i) == i >= 1 /\ i <= Len(b) /\ b[i] \in 128..191
IsLead2(b, i) == i >= 1 /\ b[i] \in 194..223
IsLead3(b, i) == i >= 1 /\ b[i] \in (225..236) \cup (238..239)
IsConsumed(b, i) ==
    /\ IsCont(b, i)
    /\ i > 1
    /\ \/ IsLead2(b, i - 1)
       \/ IsLead3(b, i - 1)
       \/ i > 2 /\ IsLead3(b, i - 2) /\ IsCont(b, i - 1)
Utf8Char(b, i) ==
    IF b[i] < 128 THEN b[i]
    ELSE IF IsLead2(b, i) /\ IsCont(b, i + 1)
    THEN (b[i] - 192) * 64 + (b[i + 1] - 128)
    ELSE IF IsLead3(b, i) /\ IsCont(b, i + 1) /\ IsCont(b, i + 2)
    THEN (b[i] - 224) * 4096 + (b[i + 1] - 128) * 64 + (b[i + 2] - 128)
    ELSE REPLACEMENT
Utf8Decode(b) ==
    LET idx == SelectSeq([i \in 1..Len(b) |-> i], LAMBDA i : ~IsConsumed(b, i))
    IN  [k \in 1..Len(idx) |-> Utf8Char(b, idx[k])]

AsciiDecode(b) == [i \in 1..Len(b) |-> IF b[i] < 128 THEN b[i] ELSE REPLACEMENT]

\* bytes.decode(charset, errors='replace')
BytesDecode(b, name) ==
    IF name = "utf-8" THEN Ok(JStr(Utf8Decode(b)))
    ELSE IF name = "us-ascii" THEN Ok(JStr(AsciiDecode(b)))
    ELSE IF name = "iso-8859-1" THEN Ok(JStr(b))
    ELSE Raise("LookupError")

\* part.get_payload(decode=True).decode(part.get_content_charset() or 'utf-8',
\*                                      errors='replace')
DecodePart(part) ==
    IF ~part.payload.present THEN Raise("AttributeError")
    ELSE BytesDecode(part.payload.bytes,
                     IF part.charset.set /\ part.charset.name # ""
                     THEN part.charset.name ELSE "utf-8")

Prefix(b, n) == SubSeq(b, 1, IF Len(b) < n THEN Len(b) ELSE n)

Parsed(subject, body) == [kind |-> "return", subject |-> subject,
                          body |-> body, exc |-> "none"]
ParseRaised(e) == [kind |-> "raise", subject |-> <<>>, body |-> <<>>, exc |-> e]

\* except Exception: return "解析错误", raw[:1024].decode('utf-8', 'replace')
ParseFallback(raw) == Parsed(PARSE_ERROR, Utf8Decode(Prefix(raw, FALLBACK_PREFIX)))

PlainParts(parts) == {i \in 1..Len(parts) : parts[i].ctype = TEXT_PLAIN}

\* Mutant: the body is taken from the last text/plain part.
SelectPart_last(parts) ==
    CHOOSE i \in PlainParts(parts) : \A j \in PlainParts(parts) : j <= i

\* for part in msg.walk(): if part.get_content_type() == 'text/plain': ...
SelectPart(parts) ==
    CHOOSE i \in PlainParts(parts) : \A j \in PlainParts(parts) : i <= j

\* Mutant: only a decoding error of the charset is handled.
ParseHandler_lookup_only(raw, e) ==
    IF e = "LookupError" THEN ParseFallback(raw) ELSE ParseRaised(e)

\* the  except Exception  clause
ParseHandler(raw, e) == ParseFallback(raw)

parse_subject_body(content) ==
    LET m == content.parsed
        subject == IF m.subject.present THEN m.subject.text ELSE NONE_TEXT
    IN
    IF m.kind = "error" THEN ParseHandler(content.raw, "MessageError")
    ELSE IF m.multipart
    THEN IF PlainParts(m.parts) = {} THEN Parsed(subject, <<>>)
         ELSE LET d == DecodePart(m.parts[SelectPart(m.parts)]) IN
              IF d.ok THEN Parsed(subject, force_unicode(d.v.s))
              ELSE ParseHandler(content.raw, d.exc)
    ELSE LET d == DecodePart(m.parts[1]) IN
         IF d.ok THEN Parsed(subject, force_unicode(d.v.s))
         ELSE ParseHandler(content.raw, d.exc)

-----------------------------------------------------------------------------
(* database.py: rule lists and inbox                                       *)

Range(rows) == {rows[i] : i \in 1..Len(rows)}

\* Mutant: the values come from a copy made before the newest row was
\* inserted.
get_list_cached(rows) == Range(SubSeq(rows, 1, Len(rows) - 1))

\* SELECT column FROM table, as a set
get_list(rows) == Range(rows)

\* Mutant: the IntegrityError of the UNIQUE constraint is not raised, the
\* duplicate row is inserted.
add_to_list_dup(rows, value) == Append(rows, value)

\* INSERT INTO table (column) VALUES (?), IntegrityError ignored
add_to_list(rows, value) ==
    IF value \in Range(rows) THEN rows ELSE Append(rows, value)

\* DELETE FROM table WHERE column = ?
remove_from_list(rows, value) == SelectSeq(rows, LAMBDA v : v # value)

\* Mutant: INSERT OR REPLACE under the newest id: the newest record is
\* overwritten.
save_mail_replace(mail_from, rcpt_to, subject, body, label) ==
    LET row == [id |-> IF lastId = 0 THEN 1 ELSE lastId, mail_from |-> mail_from,
                rcpt_to |-> rcpt_to, subject |-> subject,
                body |-> body, label |-> label]
    IN /\ inbox' = IF inbox = <<>> THEN <<row>>
                   ELSE [inbox EXCEPT ![Len(inbox)] = row]
       /\ lastId' = row.id

\* INSERT INTO inbox (mail_from, rcpt_to, subject, body, label); the row gets
\* the next AUTOINCREMENT id (the timestamp column is not modelled)
save_mail(mail_from, rcpt_to, subject, body, label) ==
    /\ inbox' = Append(inbox, [id |-> lastId + 1, mail_from |-> mail_from,
                               rcpt_to |-> rcpt_to, subject |-> subject,
                               body |-> body, label |-> label])
    /\ lastId' = lastId + 1

-----------------------------------------------------------------------------
(* Bounds and inputs of the pipeline model                                 *)

MaxMails == 2       \* messages stored, in flight or failing at one time
MaxAdminOps == 1    \* list-management requests in one behaviour

Connections == {1, 2}

COMMA == 44
SPACE == 32

\* "a@x", "A@x"
ADDR_a == <<97, 64, 120>>
ADDR_A == <<65, 64, 120>>
Senders == {ADDR_a, ADDR_A}
\* each connection is one client, which sends from its own address
ClientAddress(p) == IF p = 1 THEN ADDR_a ELSE ADDR_A
\* ["r@z", "s@z"]
RCPT_TOS == << <<114, 64, 122>>, <<115, 64, 122>> >>

\* "win", "免费"
KW_win == <<119, 105, 110>>
KW_free == <<20813, 36153>>

\* "WIN", "ok", "hi", "Win" as text or as ASCII bytes
T_WIN == <<87, 73, 78>>
T_ok == <<111, 107>>
T_hi == <<104, 105>>
T_Win == <<87, 105, 110>>
\* "免费" encoded in UTF-8
B_free == <<229, 133, 141, 232, 180, 185>>

Content(raw, parsed) == [raw |-> raw, parsed |-> parsed]

\* The payload the transport delivers in the pipeline model: a multi-part
\* message with subject "WIN" and body "免费" (SpecDecode covers the payloads
\* the decoder fails on).
PipelineContents ==
    << Content(T_hi, Message(Subject(T_WIN), TRUE,
                             <<Part("multipart/mixed", NoCharset, NoPayload),
                               Part("text/html", Charset("utf-8"), Payload(T_hi)),
                               Part(TEXT_PLAIN, Charset("utf-8"), Payload(B_free))>>)) >>

\* What an administrator types into the forms of /admin/lists:
\* " A@x", "A@x " / " Win", "免费", " "
WhiteSubmits == { <<SPACE>> \o ADDR_A }
BlackSubmits == { ADDR_A \o <<SPACE>> }
KeywordSubmits == { <<SPACE>> \o T_Win, KW_free, <<SPACE>> }

\* The replies of the classifier service in the pipeline model
PipelineOutcomes ==
    << TimeoutOutcome, StatusOutcome(500), JsonOutcome(EmptyDict),
       JsonOutcome(JDict([choices |-> JList(<<JDict([message |->
                     JDict([content |-> JStr(<<SPACE, 49, 10>>)])])>>)])),
       JsonOutcome(JDict([choices |-> JList(<<JDict([message |->
                     JDict([content |-> JStr(<<48>>)])])>>)])) >>

\* the key is unset, "", "YOUR_K" or "sk"
Credentials == << NoKey, Key(<<>>), Key(YOUR \o <<95, 75>>), Key(<<115, 107>>) >>
PipelineCredentials == << Key(YOUR \o <<95, 75>>), Key(<<115, 107>>) >>

-----------------------------------------------------------------------------
(* smtp_server.SpamFilterHandler.handle_DATA                               *)

NoResponse == [code |-> 0, reason |-> "none", kw |-> <<>>]
Reply(code, reason, kw) == [code |-> code, reason |-> reason, kw |-> kw]
\* '250 Message accepted (whitelisted)'
R_WHITELISTED == Reply(250, "whitelisted", <<>>)
\* '550 Message blocked (sender blacklisted)'
R_BLACKLISTED == Reply(550, "blacklisted", <<>>)
\* f'550 Message blocked (spam keyword: {kw})'
R_KEYWORD(kw) == Reply(550, "keyword", kw)
\* '550 Message blocked (classified as spam by AI)'
R_AI == Reply(550, "ai", <<>>)
\* '250 Message accepted for delivery'
R_PASSED == Reply(250, "passed", <<>>)
\* the handler raised: the exception reaches the transport
R_EXCEPTION == Reply(500, "exception", <<>>)

NoEnvelope == [mail_from |-> <<>>, rcpt_tos |-> <<>>, content |-> Content(<<>>, ParseError)]
NoMessage == [subject |-> <<>>, body |-> <<>>]
\* what the invocation has read so far and in which order, and, for the
\* properties: what the three tables held when it started, the reply its
\* deciding stage chose, and the database call that raised ("read", "store")
NoSnapshot == [whitelist |-> {}, blacklist |-> {}, keywords |-> {}]
NothingSeen == [whitelist |-> {}, blacklist |-> {}, keywords |-> {}, order |-> <<>>,
                snapshot |-> NoSnapshot, decided |-> NoResponse, fault |-> "none"]

\* ','.join(rcpt_tos)
RECURSIVE Join(_)
Join(items) ==
    IF items = <<>> THEN <<>>
    ELSE IF Len(items) = 1 THEN items[1]
    ELSE items[1] \o <<COMMA>> \o Join(Tail(items))

\* (subject + ' ' + body).lower()
LowerContent(m) == Lower(m.subject \o <<SPACE>> \o m.body)

\* Mutant: the keyword is compared as stored, without lower-casing the text.
KeywordMatches_case_sensitive(kw, m) ==
    IsSubstring(kw, m.subject \o <<SPACE>> \o m.body)

\* kw.lower() in lower_content
KeywordMatches(kw, m) == IsSubstring(Lower(kw), LowerContent(m))

InFlight == {p \in Connections : pc[p] \notin {"idle", "done", "failed"}}
Received == lastId + Cardinality(InFlight)
                + Cardinality({p \in Connections : pc[p] = "failed"})

\* Mutant: the request to the service is a blocking call, which keeps the
\* event-loop thread until the exchange ends.
LoopHolders_blocking_request == {p \in Connections : pc[p] = "awaiting"}

\* The connections whose coroutine keeps the event-loop thread between two
\* steps.  handle_DATA awaits the request (ai_service.py line 66, aiohttp) and
\* its database calls return (their transactions ended) before the next
\* await, so no coroutine does.
LoopHolders == {}

\* the event loop can run the coroutine of connection p
Runnable(p) == LoopHolders \subseteq {p}

\* sqlite3 raises in a database call (the file is locked, missing, damaged)
\* or it does not
DbFaults == BOOLEAN

ReadOk(S) == [ok |-> TRUE, rows |-> S]
ReadRaised == [ok |-> FALSE, rows |-> {}]

\* Mutant: a failed read is taken for an empty list.
get_list_call_default_empty(rows, fault) == ReadOk(IF fault THEN {} ELSE get_list(rows))

\* database.get_list as handle_DATA calls it: the set of values, or the
\* exception sqlite3 raised
get_list_call(rows, fault) == IF fault THEN ReadRaised ELSE ReadOk(get_list(rows))

\* an exception leaves handle_DATA: nothing is stored and the transport
\* answers for the handler
Fail(p) ==
    /\ response' = [response EXCEPT ![p] = R_EXCEPTION]
    /\ pc' = [pc EXCEPT ![p] = "failed"]
    /\ UNCHANGED <<inbox, lastId>>

\* get_list raised: the invocation's locals are gone with its frame
ReadFailed(p) ==
    /\ seen' = [seen EXCEPT ![p] = [NothingSeen EXCEPT !.fault = "read"]]
    /\ Fail(p)

\* Mutant: the reply is returned although save_mail raised.
StoreFailed_swallowed(p, reply) ==
    /\ response' = [response EXCEPT ![p] = reply]
    /\ pc' = [pc EXCEPT ![p] = "done"]
    /\ UNCHANGED <<inbox, lastId>>

\* save_mail raised: the exception leaves handle_DATA before the return
StoreFailed(p, reply) == Fail(p)

\* save_mail(...) and return: the terminal step of every stage
Decide(p, reply, label, sn) ==
    \E fault \in DbFaults :
        /\ seen' = [seen EXCEPT ![p] =
                      IF fault
                      THEN [NothingSeen EXCEPT !.decided = reply, !.fault = "store"]
                      ELSE [sn EXCEPT !.decided = reply]]
        /\ IF fault
           THEN StoreFailed(p, reply)
           ELSE /\ save_mail(env'[p].mail_from, Join(env'[p].rcpt_tos),
                             msg'[p].subject, msg'[p].body, label)
                /\ response' = [response EXCEPT ![p] = reply]
                /\ pc' = [pc EXCEPT ![p] = "done"]

\* Mutant: the keyword stage is left out of the chain.
FallThrough_past_keywords(p, next, sn) ==
    /\ seen' = [seen EXCEPT ![p] = sn]
    /\ pc' = [pc EXCEPT ![p] = IF next = "keyword" THEN "classifier" ELSE next]
    /\ UNCHANGED <<inbox, lastId, response>>

\* the stage falls through to the next one
FallThrough(p, next, sn) ==
    /\ seen' = [seen EXCEPT ![p] = sn]
    /\ pc' = [pc EXCEPT ![p] = next]
    /\ UNCHANGED <<inbox, lastId, response>>

\* the three tables as one reader would see them at this moment
Snapshot == [whitelist |-> get_list(whitelist), blacklist |-> get_list(blacklist),
             keywords |-> get_list(keywords)]

\* Mutant: the blacklist is consulted first.
FirstStageList_blacklist == blacklist

FirstStageList == whitelist

\* lines 145-159: the envelope arrives, the payload is decoded, the sender is
\* looked up in the whitelist
WhitelistStage(p) ==
    /\ pc[p] = "idle"
    /\ Runnable(p)
    /\ Received < MaxMails
    /\ \E sender \in {ClientAddress(p)}, c \in 1..Len(PipelineContents),
          fault \in DbFaults :
          LET e == [mail_from |-> sender, rcpt_tos |-> RCPT_TOS,
                    content |-> PipelineContents[c]]
              r == parse_subject_body(e.content)
              wl == get_list_call(FirstStageList, fault)
              sn == [NothingSeen EXCEPT !.whitelist = wl.rows,
                                        !.order = <<"whitelist">>,
                                        !.snapshot = Snapshot,
                                        !.fault = IF fault THEN "read" ELSE "none"]
          IN
          /\ env' = [env EXCEPT ![p] = e]
          /\ IF r.kind = "raise"
             THEN /\ Fail(p)
                  /\ UNCHANGED <<msg, seen>>
             ELSE /\ msg' = [msg EXCEPT ![p] = [subject |-> r.subject, body |-> r.body]]
                  /\ IF ~wl.ok THEN ReadFailed(p)
                     ELSE IF sender \in wl.rows
                     THEN Decide(p, R_WHITELISTED, 0, sn)
                     ELSE FallThrough(p, "blacklist", sn)
    /\ UNCHANGED <<whitelist, blacklist, keywords, credential, outcome,
                   requests, adminOps, extracted, fnArg, fnRet>>

\* Mutant: a blacklisted sender's mail is stored as normal mail.
BlacklistLabel_zero == 0

BlacklistLabel == 1

\* lines 161-166
BlacklistStage(p) ==
    /\ pc[p] = "blacklist"
    /\ Runnable(p)
    /\ UNCHANGED <<whitelist, blacklist, keywords, credential, env, msg,
                   outcome, requests, fnArg, fnRet, adminOps, extracted>>
    /\ \E fault \in DbFaults :
          LET bl == get_list_call(blacklist, fault)
              sn == [seen[p] EXCEPT !.blacklist = bl.rows,
                                    !.order = Append(@, "blacklist"),
                                    !.fault = IF fault THEN "read" ELSE @]
          IN
          IF ~bl.ok THEN ReadFailed(p)
          ELSE IF env[p].mail_from \in bl.rows
          THEN Decide(p, R_BLACKLISTED, BlacklistLabel, sn)
          ELSE FallThrough(p, "keyword", sn)

\* lines 168-175.  The keywords are iterated in the arbitrary order of a
\* Python set, so the first match can be any matching keyword.
KeywordStage(p) ==
    /\ pc[p] = "keyword"
    /\ Runnable(p)
    /\ UNCHANGED <<whitelist, blacklist, keywords, credential, env, msg,
                   outcome, requests, fnArg, fnRet, adminOps, extracted>>
    /\ \E fault \in DbFaults :
          LET kws == get_list_call(keywords, fault)
              hits == {kw \in kws.rows : KeywordMatches(kw, msg[p])}
              sn == [seen[p] EXCEPT !.keywords = kws.rows,
                                    !.order = Append(@, "keyword"),
                                    !.fault = IF fault THEN "read" ELSE @]
          IN
          IF ~kws.ok THEN ReadFailed(p)
          ELSE IF hits # {}
          THEN \E kw \in hits : Decide(p, R_KEYWORD(kw), 1, sn)
          ELSE FallThrough(p, "classifier", sn)

\* lines 178-187 with the value predict_is_spam returned
AfterPrediction(p, r, sn) ==
    IF r.kind = "raise" THEN /\ seen' = [seen EXCEPT ![p] = sn]
                             /\ Fail(p)
    ELSE IF r.value = 1 THEN Decide(p, R_AI, 1, sn)
    ELSE Decide(p, R_PASSED, 0, sn)

\* line 178 and ai_service.py lines 32-66: predict_is_spam is called; with
\* no usable credential it returns at once, else the request is sent and the
\* coroutine is suspended
ClassifierStage(p) ==
    /\ pc[p] = "classifier"
    /\ Runnable(p)
    /\ UNCHANGED <<whitelist, blacklist, keywords, credential, env, msg,
                   outcome, fnArg, fnRet, adminOps, extracted>>
    /\ LET sn == [seen[p] EXCEPT !.order = Append(@, "classifier")] IN
       IF CredentialMissing(credential)
       THEN /\ AfterPrediction(p, predict_is_spam(credential, TimeoutOutcome), sn)
            /\ UNCHANGED requests
       ELSE /\ requests' = [requests EXCEPT ![p] = @ + 1]
            /\ FallThrough(p, "awaiting", sn)

\* Mutant: the session has no timeout; with a service that stays silent the
\* wait does not end.
WaitEnds_no_timeout(o) == o.kind # "timeout"

\* aiohttp.ClientTimeout(total=15): the wait ends whatever the service does,
\* with its reply, with an error, or with the expiry of the 15 seconds
WaitEnds(o) == TRUE

\* ai_service.py lines 64-79 and smtp_server.py lines 179-187: the exchange
\* with the service ends (reply, error or timeout) and the coroutine resumes
ClassifierReply(p) ==
    /\ pc[p] = "awaiting"
    /\ outcome[p] = NoOutcome
    /\ Runnable(p)
    /\ UNCHANGED <<whitelist, blacklist, keywords, credential, env, msg,
                   requests, fnArg, fnRet, adminOps, extracted>>
    /\ \E o \in 1..Len(PipelineOutcomes) :
          /\ outcome' = [outcome EXCEPT ![p] = PipelineOutcomes[o]]
          /\ IF WaitEnds(PipelineOutcomes[o])
             THEN AfterPrediction(p, predict_is_spam(credential, PipelineOutcomes[o]),
                                  seen[p])
             ELSE UNCHANGED <<pc, seen, response, inbox, lastId>>

\* the transport sends the response; the connection can receive again
Return(p) ==
    /\ pc[p] \in {"done", "failed"}
    /\ Runnable(p)
    /\ pc' = [pc EXCEPT ![p] = "idle"]
    /\ env' = [env EXCEPT ![p] = NoEnvelope]
    /\ msg' = [msg EXCEPT ![p] = NoMessage]
    /\ seen' = [seen EXCEPT ![p] = NothingSeen]
    /\ outcome' = [outcome EXCEPT ![p] = NoOutcome]
    /\ response' = [response EXCEPT ![p] = NoResponse]
    /\ requests' = [requests EXCEPT ![p] = 0]
    /\ UNCHANGED <<whitelist, blacklist, keywords, inbox, lastId, credential,
                   fnArg, fnRet, adminOps, extracted>>

-----------------------------------------------------------------------------
(* ai_service.extract_keywords_from_mails                                  *)

\* '，'
FULLWIDTH_COMMA == 65292
\* '无'
NONE_REPLY == <<26080>>
\* {'邮件', '主题', '正文', '内容', '无'}
STOPLIST == { <<37038, 20214>>, <<20027, 39064>>, <<27491, 25991>>,
              <<20869, 23481>>, <<26080>> }

\* the separators of re.split(r'[,，\s]+', content)
IsDelim(c) == c = COMMA \/ c = FULLWIDTH_COMMA \/ IsSpace(c)

RECURSIVE SkipDelims(_)
SkipDelims(s) == IF s # <<>> /\ IsDelim(Head(s)) THEN SkipDelims(Tail(s)) ELSE s

\* re.split(r'[,，\s]+', s): the pieces between runs of separators, an empty
\* piece where s starts or ends with a separator
RECURSIVE ReSplit(_, _)
ReSplit(s, cur) ==
    IF s = <<>> THEN <<cur>>
    ELSE IF IsDelim(Head(s)) THEN <<cur>> \o ReSplit(SkipDelims(s), <<>>)
    ELSE ReSplit(Tail(s), Append(cur, Head(s)))

\* Mutant: the keyword keeps the case the service wrote it in.
CleanKeyword_as_written(kw) == Strip(kw)

\* kw.strip().lower(), kept if non-empty, longer than 1, not in the stoplist
CleanKeyword(kw) == Lower(Strip(kw))
KeepKeyword(k) == k # <<>> /\ Len(k) > 1 /\ k \notin STOPLIST

\* lines 149-158: the keywords one reply contributes
ReplyKeywords(content) ==
    IF content # <<>> /\ Lower(content) # NONE_REPLY
    THEN LET raw == ReSplit(content, <<>>) IN
         {CleanKeyword(raw[i]) : i \in {j \in 1..Len(raw) : KeepKeyword(CleanKeyword(raw[j]))}}
    ELSE {}

Extracted(kws, failed, n) ==
    [kind |-> "return", keywords |-> kws, failed |-> failed, requests |-> n,
     exc |-> "none"]
ExtractRaised(e) ==
    [kind |-> "raise", keywords |-> {}, failed |-> <<>>, requests |-> 0, exc |-> e]

\* Mutant: the first failing message ends the loop.
RECURSIVE ExtractLoop_abort(_, _, _)
ExtractLoop_abort(mails, outcomes, acc) ==
    IF mails = <<>> THEN acc
    ELSE LET c == ServiceContent(Head(outcomes)) IN
         IF c.ok
         THEN ExtractLoop_abort(Tail(mails), Tail(outcomes),
                  Extracted(acc.keywords \cup ReplyKeywords(c.v.s), acc.failed,
                            acc.requests + 1))
         ELSE Extracted(acc.keywords, Append(acc.failed, Head(mails).id),
                        acc.requests + 1)

\* lines 110-163: one request per message; a failure records the id and the
\* loop goes on
RECURSIVE ExtractLoop(_, _, _)
ExtractLoop(mails, outcomes, acc) ==
    IF mails = <<>> THEN acc
    ELSE LET c == ServiceContent(Head(outcomes)) IN
         ExtractLoop(Tail(mails), Tail(outcomes),
             IF c.ok
             THEN Extracted(acc.keywords \cup ReplyKeywords(c.v.s), acc.failed,
                            acc.requests + 1)
             ELSE Extracted(acc.keywords, Append(acc.failed, Head(mails).id),
                            acc.requests + 1))

\* Mutant: the credential is not checked before the loop.
extract_keywords_from_mails_unchecked(key, mails, outcomes) ==
    ExtractLoop(mails, outcomes, Extracted({}, <<>>, 0))

\* mails: the rows (id, subject, body); outcomes[i]: what the request for
\* mails[i] produces
extract_keywords_from_mails(key, mails, outcomes) ==
    IF CredentialMissing(key) THEN ExtractRaised("ValueError")
    ELSE ExtractLoop(mails, outcomes, Extracted({}, <<>>, 0))

-----------------------------------------------------------------------------
(* web_app.py: list management                                             *)

\* Mutant: the value is stored in the case it was typed in.
FormValue_as_typed(text) == Strip(text)

\* request.form[...].strip().lower()
FormValue(text) == Lower(Strip(text))

\* Mutant: the value is added without the check.
NonEmpty_unchecked(value) == TRUE

\* if email_to_add: / if keyword_to_add:
NonEmpty(value) == value # <<>>

\* admin_lists, POST with one of black_add / white_add / keyword_add; an
\* empty value is not added
AdminAdd ==
    /\ adminOps < MaxAdminOps
    /\ adminOps' = adminOps + 1
    /\ \/ \E t \in BlackSubmits :
            /\ blacklist' = IF NonEmpty(FormValue(t))
                            THEN add_to_list(blacklist, FormValue(t))
                            ELSE blacklist
            /\ UNCHANGED <<whitelist, keywords>>
       \/ \E t \in WhiteSubmits :
            /\ whitelist' = IF NonEmpty(FormValue(t))
                            THEN add_to_list(whitelist, FormValue(t))
                            ELSE whitelist
            /\ UNCHANGED <<blacklist, keywords>>
       \/ \E t \in KeywordSubmits :
            /\ keywords' = IF NonEmpty(FormValue(t))
                           THEN add_to_list(keywords, FormValue(t))
                           ELSE keywords
            /\ UNCHANGED <<whitelist, blacklist>>
    /\ UNCHANGED <<inbox, lastId, credential, pc, env, msg, seen, outcome,
                   response, requests, extracted, fnArg, fnRet>>

PERCENT == 37

\* urllib.parse.unquote, for %XX escapes of ASCII characters (the model's
\* values hold no escape of a non-ASCII byte)
RECURSIVE Unquote(_)
Unquote(t) ==
    IF t = <<>> THEN <<>>
    ELSE IF /\ Len(t) >= 3
            /\ t[1] = PERCENT
            /\ HexVal(t[2]) \in 0..7
            /\ HexVal(t[3]) >= 0
    THEN <<16 * HexVal(t[2]) + HexVal(t[3])>> \o Unquote(SubSeq(t, 4, Len(t)))
    ELSE <<Head(t)>> \o Unquote(Tail(t))

\* the <table> and <value> of the requests to /admin/remove:
\* "a@x", "a%40x", "win", "免费"
RemoveTables == {"blacklist", "whitelist", "keywords", "inbox"}
RemoveSubmits == { ADDR_a, <<97, PERCENT, 52, 48, 120>>, KW_win, KW_free }

\* remove_from_list route: /admin/remove/<table>/<value>; a table outside
\* column_map is ignored
AdminRemove ==
    /\ adminOps < MaxAdminOps
    /\ adminOps' = adminOps + 1
    /\ \E table \in RemoveTables, value \in RemoveSubmits :
          LET v == Unquote(value) IN
          /\ blacklist' = IF table = "blacklist"
                          THEN remove_from_list(blacklist, v) ELSE blacklist
          /\ whitelist' = IF table = "whitelist"
                          THEN remove_from_list(whitelist, v) ELSE whitelist
          /\ keywords' = IF table = "keywords"
                         THEN remove_from_list(keywords, v) ELSE keywords
    /\ UNCHANGED <<inbox, lastId, credential, pc, env, msg, seen, outcome,
                   response, requests, extracted, fnArg, fnRet>>

-----------------------------------------------------------------------------
(* The pipeline specification                                              *)

\* The rows of a set of values, in one order
RECURSIVE Rows(_)
Rows(S) ==
    IF S = {} THEN <<>>
    ELSE LET v == CHOOSE x \in S : TRUE IN <<v>> \o Rows(S \ {v})

\* the replies of the service to an extraction request in the pipeline
\* model: none in time, or " WIN,, a"
PipelineExtractOutcomes ==
    << TimeoutOutcome,
       JsonOutcome(JDict([choices |-> JList(<<JDict([message |->
           JDict([content |-> JStr(<<SPACE, 87, 73, 78, COMMA, COMMA, SPACE, 97>>)])])>>)])) >>

\* the mail_ids of a request to /admin/extract-keywords: none, or the id of
\* the first record, which need not exist yet (SpecExtract covers the
\* batches of several messages)
ExtractRequests == {{}, {1}}

\* database.get_mails_by_ids: SELECT id, subject, body FROM inbox WHERE id IN (...)
get_mails_by_ids(rows, ids) ==
    IF ids = {} THEN <<>>
    ELSE LET sel == SelectSeq(rows, LAMBDA r : r.id \in ids) IN
         [i \in 1..Len(sel) |->
             [id |-> sel[i].id, subject |-> sel[i].subject, body |-> sel[i].body]]

\* Mutant: the keywords are reported but not stored.
AddAll_unsaved(rows, values) == rows

\* for keyword in keywords: database.add_to_list('keywords', keyword, 'keyword')
RECURSIVE AddAll(_, _)
AddAll(rows, values) ==
    IF values = <<>> THEN rows
    ELSE AddAll(add_to_list(rows, Head(values)), Tail(values))

\* web_app.extract_keywords: no id (400), no record found (404) and an
\* exception of the extractor (500) change nothing; else every extracted
\* keyword is added and reported.  (The keywords are added in the iteration
\* order of a Python set; the order of the rows is not observable through
\* get_list.)
AdminExtract ==
    /\ adminOps < MaxAdminOps
    /\ adminOps' = adminOps + 1
    /\ \E ids \in ExtractRequests :
          LET mails == get_mails_by_ids(inbox, ids) IN
          \E f \in [1..Len(mails) -> 1..Len(PipelineExtractOutcomes)] :
             LET r == extract_keywords_from_mails(credential, mails,
                          [i \in 1..Len(mails) |-> PipelineExtractOutcomes[f[i]]])
             IN
             IF ids = {} \/ mails = <<>> \/ r.kind = "raise"
             THEN UNCHANGED <<keywords, extracted>>
             ELSE /\ keywords' = AddAll(keywords, Rows(r.keywords))
                  /\ extracted' = r.keywords
    /\ UNCHANGED <<whitelist, blacklist, inbox, lastId, credential, pc, env, msg,
                   seen, outcome, response, requests, fnArg, fnRet>>

\* The database persists across restarts: the lists hold what earlier
\* list-management requests left in them; the inbox starts empty.
Init ==
    /\ \E S \in SUBSET {FormValue(t) : t \in WhiteSubmits} : whitelist = Rows(S)
    /\ \E S \in SUBSET {FormValue(t) : t \in BlackSubmits} : blacklist = Rows(S)
    /\ \E S \in SUBSET ({FormValue(t) : t \in KeywordSubmits} \ {<<>>}) :
          keywords = Rows(S)
    /\ inbox = <<>>
    /\ lastId = 0
    /\ \E k \in 1..Len(PipelineCredentials) : credential = PipelineCredentials[k]
    /\ pc = [p \in Connections |-> "idle"]
    /\ env = [p \in Connections |-> NoEnvelope]
    /\ msg = [p \in Connections |-> NoMessage]
    /\ seen = [p \in Connections |-> NothingSeen]
    /\ outcome = [p \in Connections |-> NoOutcome]
    /\ response = [p \in Connections |-> NoResponse]
    /\ requests = [p \in Connections |-> 0]
    /\ adminOps = 0
    /\ extracted = {}
    /\ fnArg = NoArg
    /\ fnRet = Pending

Next ==
    \/ \E p \in Connections : WhitelistStage(p)
    \/ \E p \in Connections : BlacklistStage(p)
    \/ \E p \in Connections : KeywordStage(p)
    \/ \E p \in Connections : ClassifierStage(p)
    \/ \E p \in Connections : ClassifierReply(p)
    \/ \E p \in Connections : Return(p)
    \/ AdminAdd
    \/ AdminRemove
    \/ AdminExtract

Spec == Init /\ [][Next]_vars

\* The steps of a started invocation are taken: handle_DATA is straight-line
\* code whose database calls return, the event loop runs a coroutine that is
\* ready, and the awaited request ends after 15 seconds at the latest.  No
\* client has to send a message and no administrator has to act.
Continue(p) ==
    \/ BlacklistStage(p)
    \/ KeywordStage(p)
    \/ ClassifierStage(p)
    \/ ClassifierReply(p)

Fairness == \A p \in Connections : WF_vars(Continue(p))

\* database.init_db on a new file: the tables are created empty
InitFresh ==
    /\ Init
    /\ whitelist = <<>>
    /\ blacklist = <<>>
    /\ keywords = <<>>

SpecLive == InitFresh /\ [][Next]_vars /\ Fairness

-----------------------------------------------------------------------------
(* Function specifications: the argument is drawn in the initial state,    *)
(* the action applies the function                                         *)

\* the pipeline is not running
PipelineIdle ==
    /\ whitelist = <<>>
    /\ blacklist = <<>>
    /\ keywords = <<>>
    /\ inbox = <<>>
    /\ lastId = 0
    /\ credential = NoKey
    /\ pc = [p \in Connections |-> "idle"]
    /\ env = [p \in Connections |-> NoEnvelope]
    /\ msg = [p \in Connections |-> NoMessage]
    /\ seen = [p \in Connections |-> NothingSeen]
    /\ outcome = [p \in Connections |-> NoOutcome]
    /\ response = [p \in Connections |-> NoResponse]
    /\ requests = [p \in Connections |-> 0]
    /\ adminOps = 0
    /\ extracted = {}

(* force_unicode *)

MaxNormPieces == 6    \* pieces an input text is made of

HexDigit(n) == IF n < 10 THEN 48 + n ELSE 87 + n
\* the text \uXXXX naming code point cp
Esc(cp) == <<BACKSLASH, LOWER_U, HexDigit(cp \div 4096), HexDigit((cp \div 256) % 16),
             HexDigit((cp \div 16) % 16), HexDigit(cp % 16)>>

\* \, u, 0, 中 (upper-case digits), and the letter a
NormPieces == << Esc(BACKSLASH), Esc(LOWER_U), Esc(48),
                 <<BACKSLASH, LOWER_U, 52, 69, 50, 68>>, <<97>> >>

InitNorm ==
    /\ PipelineIdle
    /\ \E n \in 0..MaxNormPieces : \E f \in [1..n -> 1..Len(NormPieces)] :
          fnArg = [kind |-> "force_unicode",
                   text |-> Concat([i \in 1..n |-> NormPieces[f[i]]])]
    /\ fnRet = Pending

Normalize ==
    /\ fnArg.kind = "force_unicode"
    /\ fnRet.kind = "pending"
    /\ fnRet' = [kind |-> "once", value |-> force_unicode(fnArg.text)]
    /\ UNCHANGED <<fnArg, pipelineVars>>

NormalizeAgain ==
    /\ fnRet.kind = "once"
    /\ fnRet' = [kind |-> "twice", first |-> fnRet.value,
                 value |-> force_unicode(fnRet.value)]
    /\ UNCHANGED <<fnArg, pipelineVars>>

NextNorm == Normalize \/ NormalizeAgain

SpecNorm == InitNorm /\ [][NextNorm]_vars

(* predict_is_spam *)

\* a reply  {"choices": [{"message": {"content": c}}]}
ReplyWith(c) ==
    JsonOutcome(JDict([choices |-> JList(<<JDict([message |->
                                          JDict([content |-> c])])>>)]))

\* the contents "1", " 1\n", "0", "", "1.", "11", "1 0", "spam", "１"
ReplyTexts == << <<49>>, <<SPACE, 49, 10>>, <<48>>, <<>>, <<49, 46>>, <<49, 49>>,
                 <<49, SPACE, 48>>, <<115, 112, 97, 109>>, <<65297>> >>

PredictOutcomes ==
    << TimeoutOutcome, ConnErrorOutcome, StatusOutcome(401), StatusOutcome(500),
       BadJsonOutcome,
       JsonOutcome(JNull), JsonOutcome(JList(<<>>)), JsonOutcome(JStr(<<49>>)),
       JsonOutcome(EmptyDict),
       JsonOutcome(JDict([choices |-> JNull])),
       JsonOutcome(JDict([choices |-> JList(<<>>)])),
       JsonOutcome(JDict([choices |-> JStr(<<49>>)])),
       JsonOutcome(JDict([choices |-> JList(<<JStr(<<49>>)>>)])),
       JsonOutcome(JDict([choices |-> JList(<<EmptyDict>>)])),
       JsonOutcome(JDict([choices |-> JList(<<JDict([message |-> JNull])>>)])),
       JsonOutcome(JDict([choices |-> JList(<<JDict([message |-> EmptyDict])>>)])),
       ReplyWith(JNull), ReplyWith(JList(<<JStr(<<49>>)>>)) >>
    \o [i \in 1..Len(ReplyTexts) |-> ReplyWith(JStr(ReplyTexts[i]))]

InitPredict ==
    /\ PipelineIdle
    /\ \E k \in 1..Len(Credentials), o \in 1..Len(PredictOutcomes) :
          fnArg = [kind |-> "predict_is_spam", key |-> Credentials[k],
                   outcome |-> PredictOutcomes[o]]
    /\ fnRet = Pending

Predict ==
    /\ fnArg.kind = "predict_is_spam"
    /\ fnRet.kind = "pending"
    /\ fnRet' = predict_is_spam(fnArg.key, fnArg.outcome)
    /\ UNCHANGED <<fnArg, pipelineVars>>

NextPredict == Predict

SpecPredict == InitPredict /\ [][NextPredict]_vars

(* parse_subject_body *)

MaxParts == 2    \* parts of a multi-part message below its root

\* 1030 bytes "a"
RawLong == [i \in 1..1030 |-> 97]
\* 1022 bytes "a", then the three bytes of U+514D, then "a"
RawCut == [i \in 1..1026 |-> IF i = 1023 THEN 229
                            ELSE IF i = 1024 THEN 133
                            ELSE IF i = 1025 THEN 141 ELSE 97]
DecodeRaws == << <<>>, T_ok, <<255, 97>>, RawLong, RawCut >>

RootPart == Part("multipart/mixed", NoCharset, NoPayload)
DecodeParts ==
    << Part(TEXT_PLAIN, Charset("utf-8"), Payload(T_hi)),
       Part(TEXT_PLAIN, NoCharset, Payload(<<255, 104>>)),
       Part(TEXT_PLAIN, Charset("x-unknown"), Payload(T_hi)),
       Part("text/html", Charset("utf-8"), Payload(T_ok)),
       Part(TEXT_PLAIN, Charset("iso-8859-1"), Payload(Esc(20013))),
       Part(TEXT_PLAIN, NoCharset, NoPayload) >>
DecodeSubjects == << NoSubject, Subject(T_WIN) >>

InitDecode ==
    /\ PipelineIdle
    /\ \E r \in 1..Len(DecodeRaws) :
          \/ fnArg = [kind |-> "parse_subject_body",
                      content |-> Content(DecodeRaws[r], ParseError)]
          \/ \E sj \in 1..Len(DecodeSubjects), i \in 1..Len(DecodeParts) :
                fnArg = [kind |-> "parse_subject_body",
                         content |-> Content(DecodeRaws[r],
                             Message(DecodeSubjects[sj], FALSE, <<DecodeParts[i]>>))]
          \/ \E sj \in 1..Len(DecodeSubjects), n \in 0..MaxParts :
                \E f \in [1..n -> 1..Len(DecodeParts)] :
                   fnArg = [kind |-> "parse_subject_body",
                            content |-> Content(DecodeRaws[r],
                                Message(DecodeSubjects[sj], TRUE,
                                    <<RootPart>> \o [i \in 1..n |-> DecodeParts[f[i]]]))]
    /\ fnRet = Pending

Decode ==
    /\ fnArg.kind = "parse_subject_body"
    /\ fnRet.kind = "pending"
    /\ fnRet' = parse_subject_body(fnArg.content)
    /\ UNCHANGED <<fnArg, pipelineVars>>

NextDecode == Decode

SpecDecode == InitDecode /\ [][NextDecode]_vars

(* extract_keywords_from_mails *)

MaxBatch == 3    \* messages in one batch

\* the replies "Win, 免费彩票", "无", "中奖，邮件 a WIN", a reply without
\* content, and two failures
ExtractOutcomes ==
    << TimeoutOutcome, StatusOutcome(500), ReplyWith(JNull),
       ReplyWith(JStr(<<87, 105, 110, COMMA, SPACE, 20813, 36153, 24425, 31080>>)),
       ReplyWith(JStr(NONE_REPLY)),
       ReplyWith(JStr(<<20013, 22870, FULLWIDTH_COMMA, 37038, 20214, SPACE, 97,
                        SPACE, 87, 73, 78>>)) >>

\* the rows get_mails_by_ids returns: distinct ids
BatchRow(i) == [id |-> 2 * i + 1, subject |-> T_WIN, body |-> T_hi]

InitExtract ==
    /\ PipelineIdle
    /\ \E k \in 1..Len(Credentials), n \in 0..MaxBatch :
          \E f \in [1..n -> 1..Len(ExtractOutcomes)] :
             fnArg = [kind |-> "extract_keywords_from_mails",
                      key |-> Credentials[k],
                      mails |-> [i \in 1..n |-> BatchRow(i)],
                      outcomes |-> [i \in 1..n |-> ExtractOutcomes[f[i]]]]
    /\ fnRet = Pending

Extract ==
    /\ fnArg.kind = "extract_keywords_from_mails"
    /\ fnRet.kind = "pending"
    /\ fnRet' = extract_keywords_from_mails(fnArg.key, fnArg.mails, fnArg.outcomes)
    /\ UNCHANGED <<fnArg, pipelineVars>>

NextExtract == Extract

SpecExtract == InitExtract /\ [][NextExtract]_vars

-----------------------------------------------------------------------------
(* Properties of force_unicode (SpecNorm)                                  *)

\* C8, as stated: force_unicode is idempotent on every text value, and a
\* value that does not match the full escape pattern is returned unchanged.
C8_Idempotent ==
    /\ fnRet.kind = "twice" => fnRet.value = fnRet.first
    /\ fnRet.kind = "once" /\ ~IsEscapeSeq(fnArg.text) => fnRet.value = fnArg.text

\* C8, amended: a second application changes the result of the first exactly
\* when that result is itself made only of \uXXXX escapes; a value that does
\* not match the full escape pattern is returned unchanged.
C8_IdempotentUnlessNested ==
    /\ fnRet.kind = "twice" =>
          (fnRet.value = fnRet.first <=> ~IsEscapeSeq(fnRet.first))
    /\ fnRet.kind = "once" /\ ~IsEscapeSeq(fnArg.text) => fnRet.value = fnArg.text

\* an all-escape value whose decoding is again all escapes was normalised twice
C8_NestedWitness ==
    /\ fnRet.kind = "twice"
    /\ IsEscapeSeq(fnArg.text)
    /\ IsEscapeSeq(fnRet.first)
    /\ fnRet.value # fnRet.first

-----------------------------------------------------------------------------
(* Properties of handle_DATA (Spec)                                        *)

\* the step stores exactly one inbox row, for connection p's message, with
\* the given label
Stores(p, label) ==
    /\ Len(inbox') = Len(inbox) + 1
    /\ SubSeq(inbox', 1, Len(inbox)) = inbox
    /\ LET row == inbox'[Len(inbox')] IN
       /\ row.label = label
       /\ row.mail_from = env'[p].mail_from
       /\ row.subject = msg'[p].subject
       /\ row.body = msg'[p].body

\* k is a case-insensitive substring of subject + " " + body
CaseInsensitiveHit(k, m) ==
    IsSubstring(Lower(k), Lower(m.subject \o <<SPACE>> \o m.body))

\* the service answered with a well-formed reply whose trimmed content is
\* exactly the spam token
SpamReply(o) ==
    /\ o.kind = "json"
    /\ o.status < 400
    /\ o.result.t = "dict"
    /\ "choices" \in DOMAIN o.result.d
    /\ LET ch == o.result.d["choices"] IN
       /\ ch.t = "list"
       /\ Len(ch.l) > 0
       /\ ch.l[1].t = "dict"
       /\ "message" \in DOMAIN ch.l[1].d
       /\ LET m == ch.l[1].d["message"] IN
          /\ m.t = "dict"
          /\ "content" \in DOMAIN m.d
          /\ m.d["content"].t = "str"
          /\ Strip(m.d["content"].s) = <<49>>

\* the exchange failed: timeout, transport error, error status, no JSON
FailedExchange(o) ==
    \/ o.kind \in {"timeout", "conn_error", "bad_json"}
    \/ o.status >= 400

\* C1: a message whose sender is in the whitelist when handle_DATA runs is
\* accepted as whitelisted and stored with label 0, whatever the blacklist,
\* the keywords and the classifier say (the database calls succeeding).
C1_WhitelistDominates ==
    [][\A p \in Connections :
          (/\ pc[p] = "idle"
           /\ pc'[p] # "idle"
           /\ env'[p].mail_from \in Range(whitelist)
           /\ seen'[p].fault = "none")
          => (/\ pc'[p] = "done"
              /\ response'[p] = R_WHITELISTED
              /\ Stores(p, 0)
              /\ requests'[p] = 0)]_vars

\* a whitelisted sender that is also blacklisted, with a spam keyword in the
\* subject, was accepted
C1_Witness ==
    \E p \in Connections :
        /\ pc[p] = "done"
        /\ response[p] = R_WHITELISTED
        /\ env[p].mail_from \in Range(whitelist)
        /\ env[p].mail_from \in Range(blacklist)
        /\ \E k \in Range(keywords) : CaseInsensitiveHit(k, msg[p])
        /\ inbox[Len(inbox)].label = 0

\* C2: a message whose sender is not in the whitelist reaches the blacklist
\* stage, and if the sender is in the blacklist then, it is rejected as
\* blacklisted and stored with label 1, whatever the keywords and the
\* classifier say (the database calls succeeding).
C2_BlacklistRejects ==
    [][\A p \in Connections :
          /\ (/\ pc[p] = "idle"
              /\ pc'[p] # "idle"
              /\ env'[p].mail_from \notin Range(whitelist)
              /\ seen'[p].fault = "none")
             => pc'[p] = "blacklist"
          /\ (/\ pc[p] = "blacklist"
              /\ pc'[p] # "blacklist"
              /\ env[p].mail_from \in Range(blacklist)
              /\ seen'[p].fault = "none")
             => (/\ pc'[p] = "done"
                 /\ response'[p] = R_BLACKLISTED
                 /\ Stores(p, 1)
                 /\ requests'[p] = 0)]_vars

\* a blacklisted sender that is not whitelisted was rejected, with no keyword
\* matching its message
C2_Witness ==
    \E p \in Connections :
        /\ pc[p] = "done"
        /\ response[p] = R_BLACKLISTED
        /\ env[p].mail_from \notin seen[p].whitelist
        /\ env[p].mail_from \in seen[p].blacklist
        /\ \A k \in Range(keywords) : ~CaseInsensitiveHit(k, msg[p])
        /\ inbox[Len(inbox)].label = 1

\* C3: a message whose sender is in neither list reaches the keyword stage,
\* and if some keyword is then a case-insensitive substring of
\* subject + " " + body, the message is rejected with one of the matching
\* keywords as the reason and stored with label 1, and the classifier is not
\* consulted (the database calls succeeding).
C3_KeywordRejects ==
    [][\A p \in Connections :
          /\ (/\ pc[p] = "blacklist"
              /\ pc'[p] # "blacklist"
              /\ env[p].mail_from \notin Range(blacklist)
              /\ seen'[p].fault = "none")
             => pc'[p] = "keyword"
          /\ (/\ pc[p] = "keyword"
              /\ pc'[p] # "keyword"
              /\ \E k \in Range(keywords) : CaseInsensitiveHit(k, msg[p])
              /\ seen'[p].fault = "none")
             => (/\ pc'[p] = "done"
                 /\ response'[p].code = 550
                 /\ response'[p].reason = "keyword"
                 /\ response'[p].kw \in Range(keywords)
                 /\ CaseInsensitiveHit(response'[p].kw, msg[p])
                 /\ Stores(p, 1)
                 /\ requests'[p] = 0
                 /\ seen'[p].order = <<"whitelist", "blacklist", "keyword">>)]_vars

\* a message with subject "WIN" was rejected for the stored keyword "win"
\* while another keyword matched as well
C3_Witness ==
    \E p \in Connections :
        /\ pc[p] = "done"
        /\ response[p] = R_KEYWORD(KW_win)
        /\ msg[p].subject = T_WIN
        /\ env[p].mail_from \notin seen[p].whitelist \cup seen[p].blacklist
        /\ \E k \in seen[p].keywords : k # KW_win /\ CaseInsensitiveHit(k, msg[p])

\* C4: a message that no list and no keyword matched is rejected as
\* AI-classified with label 1 when the classifier answers spam, and accepted
\* as passed with label 0 otherwise: when it answers anything else, fails or
\* times out (the store call succeeding).
C4_FailOpen ==
    [][\A p \in Connections :
          (/\ pc[p] \in {"classifier", "awaiting"}
           /\ pc'[p] \notin {"classifier", "awaiting"}
           /\ seen'[p].fault = "none")
          => (/\ pc'[p] = "done"
              /\ IF pc[p] = "awaiting" /\ SpamReply(outcome'[p])
                 THEN response'[p] = R_AI /\ Stores(p, 1)
                 ELSE response'[p] = R_PASSED /\ Stores(p, 0))]_vars

\* a message was accepted after the classifier call failed, and another was
\* rejected on a spam answer
C4_Witness ==
    /\ \E p \in Connections :
          /\ pc[p] = "done"
          /\ FailedExchange(outcome[p])
          /\ response[p] = R_PASSED
    /\ \E p \in Connections :
          /\ pc[p] = "done"
          /\ SpamReply(outcome[p])
          /\ response[p] = R_AI

-----------------------------------------------------------------------------
(* Properties of predict_is_spam (SpecPredict)                             *)

\* the credential is unset, empty, or a placeholder (it contains "YOUR")
CredentialAbsent(key) ==
    \/ ~key.set
    \/ key.text = <<>>
    \/ \E i \in 1..(Len(key.text) - 3) : SubSeq(key.text, i, i + 3) = <<89, 79, 85, 82>>

\* the reply has every field of {"choices": [{"message": {"content": text}}]}
WellFormedReply(o) ==
    /\ o.kind = "json"
    /\ o.result.t = "dict"
    /\ "choices" \in DOMAIN o.result.d
    /\ LET ch == o.result.d["choices"] IN
       /\ ch.t = "list"
       /\ Len(ch.l) > 0
       /\ ch.l[1].t = "dict"
       /\ "message" \in DOMAIN ch.l[1].d
       /\ LET m == ch.l[1].d["message"] IN
          /\ m.t = "dict"
          /\ "content" \in DOMAIN m.d
          /\ m.d["content"].t = "str"

\* C5: predict_is_spam always returns 0 or 1 and never raises; a timeout, a
\* transport error, an error status, a body that is not JSON and a malformed
\* reply all give 0, so handle_DATA, which awaits it, gets no exception.
C5_AlwaysReturns ==
    fnRet.kind # "pending" =>
        /\ fnRet.kind = "return"
        /\ fnRet.value \in {0, 1}
        /\ (FailedExchange(fnArg.outcome) \/ ~WellFormedReply(fnArg.outcome))
              => fnRet.value = 0

\* with a usable credential, the request was sent and timed out, and 0 was
\* returned
C5_Witness ==
    /\ fnRet.kind = "return"
    /\ ~CredentialAbsent(fnArg.key)
    /\ fnArg.outcome.kind = "timeout"
    /\ fnRet.requests = 1
    /\ fnRet.value = 0

\* C6: with a missing or placeholder credential predict_is_spam returns 0
\* and issues no request.
C6_NoCredentialNoRequest ==
    (fnRet.kind # "pending" /\ CredentialAbsent(fnArg.key)) =>
        /\ fnRet.kind = "return"
        /\ fnRet.value = 0
        /\ fnRet.requests = 0

\* the placeholder key "YOUR_K": 0 was returned without a request although
\* the service would have answered spam
C6_Witness ==
    /\ fnRet.kind = "return"
    /\ fnArg.key.set
    /\ fnArg.key.text = <<89, 79, 85, 82, 95, 75>>
    /\ SpamReply(fnArg.outcome)
    /\ fnRet.value = 0
    /\ fnRet.requests = 0

\* C7: predict_is_spam returns 1 exactly when the request was made and
\* succeeded and the trimmed content of the reply is the spam token alone.
C7_ExactSpamToken ==
    fnRet.kind # "pending" =>
        /\ fnRet.kind = "return"
        /\ fnRet.value = 1 <=> (~CredentialAbsent(fnArg.key) /\ SpamReply(fnArg.outcome))

\* the reply " 1\n" counted as spam
C7_Witness ==
    /\ fnRet.kind = "return"
    /\ fnRet.value = 1
    /\ WellFormedReply(fnArg.outcome)
    /\ fnArg.outcome.result.d["choices"].l[1].d["message"].d["content"].s = <<SPACE, 49, 10>>

-----------------------------------------------------------------------------
(* Properties of parse_subject_body (SpecDecode)                           *)

IsText(x) == \A i \in 1..Len(x) : x[i] \in 0..1114111

KnownCharsets == {"utf-8", "us-ascii", "iso-8859-1"}

\* the part whose payload becomes the body: the message itself, or the first
\* text/plain part of a multi-part message
BodyPart(m) ==
    IF m.multipart
    THEN m.parts[CHOOSE i \in 1..Len(m.parts) :
                    /\ m.parts[i].ctype = "text/plain"
                    /\ \A j \in 1..(i - 1) : m.parts[j].ctype # "text/plain"]
    ELSE m.parts[1]

\* decoding fails inside parse_subject_body: the library raises, or the body
\* part has no payload or names a charset Python does not know
DecodeFails(content) ==
    LET m == content.parsed IN
    \/ m.kind = "error"
    \/ /\ m.multipart => \E i \in 1..Len(m.parts) : m.parts[i].ctype = "text/plain"
       /\ \/ ~BodyPart(m).payload.present
          \/ /\ BodyPart(m).charset.set
             /\ BodyPart(m).charset.name \notin KnownCharsets \cup {""}

\* C9: parse_subject_body never raises and returns text for subject and
\* body; when decoding fails, the subject is the error marker and the body
\* is the UTF-8 decoding, with replacement, of the first 1024 bytes of the
\* raw payload at most.
C9_NeverRaises ==
    fnRet.kind # "pending" =>
        /\ fnRet.kind = "return"
        /\ IsText(fnRet.subject)
        /\ IsText(fnRet.body)
        /\ DecodeFails(fnArg.content) =>
              /\ fnRet.subject = <<35299, 26512, 38169, 35823>>
              /\ Len(fnRet.body) <= 1024
              /\ fnRet.body = Utf8Decode(SubSeq(fnArg.content.raw, 1,
                     IF Len(fnArg.content.raw) < 1024
                     THEN Len(fnArg.content.raw) ELSE 1024))

\* a multi-part payload of more than 1024 bytes whose text part names an
\* unknown charset was decoded to the error marker and a truncated body
C9_Witness ==
    /\ fnRet.kind = "return"
    /\ fnArg.content.parsed.kind = "message"
    /\ fnArg.content.parsed.multipart
    /\ DecodeFails(fnArg.content)
    /\ BodyPart(fnArg.content.parsed).charset.name = "x-unknown"
    /\ Len(fnArg.content.raw) > 1024
    /\ fnRet.subject = PARSE_ERROR
    /\ Len(fnRet.body) = 1023
    /\ fnRet.body[1023] = REPLACEMENT

-----------------------------------------------------------------------------
(* Properties of extract_keywords_from_mails (SpecExtract)                 *)

\* the request for a message fails: timeout, transport error, error status,
\* or a reply that cannot be read
RequestFails(o) == ~ServiceContent(o).ok

\* positions of the failing messages of a batch
FailingPositions(outs) == {i \in 1..Len(outs) : RequestFails(outs[i])}

\* the ids at the positions P, in input order
RECURSIVE IdsAt(_, _, _)
IdsAt(mails, P, i) ==
    IF i > Len(mails) THEN <<>>
    ELSE (IF i \in P THEN <<mails[i].id>> ELSE <<>>) \o IdsAt(mails, P, i + 1)

\* C10: with a credential, every message of the batch is processed: the
\* result holds the keywords of all messages whose request did not fail, and
\* failedIds lists the ids of the failing ones, each once, in input order.
C10_FailIsolation ==
    (fnRet.kind # "pending" /\ ~CredentialAbsent(fnArg.key)) =>
        /\ fnRet.kind = "return"
        /\ fnRet.requests = Len(fnArg.mails)
        /\ fnRet.failed = IdsAt(fnArg.mails, FailingPositions(fnArg.outcomes), 1)
        /\ fnRet.keywords =
              UNION {ReplyKeywords(ServiceContent(fnArg.outcomes[i]).v.s) :
                        i \in (1..Len(fnArg.mails)) \ FailingPositions(fnArg.outcomes)}

\* of three messages the second failed; the keywords of the first and of the
\* third were returned
C10_Witness ==
    /\ fnRet.kind = "return"
    /\ Len(fnArg.mails) = 3
    /\ FailingPositions(fnArg.outcomes) = {2}
    /\ fnRet.failed = <<fnArg.mails[2].id>>
    /\ <<119, 105, 110>> \in fnRet.keywords
    /\ <<20013, 22870>> \in fnRet.keywords
    /\ ReplyKeywords(ServiceContent(fnArg.outcomes[1]).v.s)
          # ReplyKeywords(ServiceContent(fnArg.outcomes[3]).v.s)

\* C11: when the credential is absent or a placeholder the call raises before
\* any message is processed: no request, no keyword, no failed id; and the
\* call raises in no other case.
C11_CredentialFailFast ==
    fnRet.kind # "pending" =>
        /\ fnRet.kind = "raise" <=> CredentialAbsent(fnArg.key)
        /\ fnRet.kind = "raise" =>
              /\ fnRet.exc = "ValueError"
              /\ fnRet.requests = 0
              /\ fnRet.keywords = {}
              /\ fnRet.failed = <<>>

\* with the placeholder key "YOUR_K" a batch of three messages, whose
\* requests would all have been answered, raised
C11_Witness ==
    /\ fnRet.kind = "raise"
    /\ fnArg.key.set
    /\ fnArg.key.text = <<89, 79, 85, 82, 95, 75>>
    /\ Len(fnArg.mails) = 3
    /\ FailingPositions(fnArg.outcomes) = {}
    /\ fnRet.requests = 0

\* C12: every keyword returned is trimmed and lower-cased, longer than one
\* character and not in the stoplist (the result is a Python set, so a
\* keyword several replies propose, in whatever case, is one element of it).
C12_KeywordsNormalised ==
    fnRet.kind = "return" =>
        \A k \in fnRet.keywords :
            /\ Strip(k) = k
            /\ Lower(k) = k
            /\ Len(k) > 1
            /\ k \notin STOPLIST

\* the replies "Win, 免费彩票" and "中奖，邮件 a WIN" gave the three keywords
\* "win", "免费彩票" and "中奖"
C12_Witness ==
    /\ fnRet.kind = "return"
    /\ Len(fnArg.mails) = 2
    /\ fnArg.outcomes[1] = ExtractOutcomes[4]
    /\ fnArg.outcomes[2] = ExtractOutcomes[6]
    /\ fnRet.keywords = { <<119, 105, 110>>, <<20813, 36153, 24425, 31080>>,
                          <<20013, 22870>> }

-----------------------------------------------------------------------------
(* Properties of handle_DATA under concurrent list management (Spec)       *)

\* the reason the stages give when all three are evaluated against the
\* tables sn: "classifier" when no list and no keyword matches
SnapshotReason(sn, sender, m) ==
    IF sender \in sn.whitelist THEN "whitelisted"
    ELSE IF sender \in sn.blacklist THEN "blacklisted"
    ELSE IF \E k \in sn.keywords : CaseInsensitiveHit(k, m) THEN "keyword"
    ELSE "classifier"

\* C13: the decision for a message is the one the stages give against the
\* three rule lists as they were when the message's processing started; a
\* list update that commits during the processing does not change it.
C13_SnapshotDecision ==
    \A p \in Connections :
        pc[p] = "done" =>
            LET r == SnapshotReason(seen[p].snapshot, env[p].mail_from, msg[p]) IN
            IF r = "classifier"
            THEN response[p].reason \in {"ai", "passed"}
            ELSE /\ response[p].reason = r
                 /\ r = "keyword" => response[p].kw \in seen[p].snapshot.keywords

-----------------------------------------------------------------------------
(* Properties of handle_DATA under database faults (Spec)                  *)

\* C14: when a rule-list read raises, the invocation ends there: the
\* exception reaches the transport, no accept reply is given and nothing is
\* stored; the connection then returns to idle with nothing left of the
\* failed invocation, and the lists and the inbox are as they were.
C14_ReadErrorFatal ==
    [][\A p \in Connections :
          /\ (seen'[p].fault = "read" /\ seen'[p] # seen[p])
             => (/\ pc[p] \in {"idle", "blacklist", "keyword"}
                 /\ pc'[p] = "failed"
                 /\ response'[p] = R_EXCEPTION
                 /\ seen'[p].decided = NoResponse
                 /\ inbox' = inbox)
          /\ (pc[p] = "failed" /\ pc'[p] # "failed")
             => (/\ pc'[p] = "idle"
                 /\ seen'[p] = NothingSeen
                 /\ response'[p] = NoResponse
                 /\ UNCHANGED <<whitelist, blacklist, keywords, inbox, lastId>>)]_vars

\* a rule-list read of one message raised
\* while the message of the other connection was decided and
\* stored
C14_Witness ==
    \E p, q \in Connections :
        /\ pc[p] = "failed"
        /\ seen[p].fault = "read"
        /\ response[p] = R_EXCEPTION
        /\ pc[q] = "done"
        /\ seen[q].fault = "none"
        /\ Len(inbox) = 1
        /\ inbox[1].mail_from = env[q].mail_from

\* C15: once a stage has reached its decision, the reply handle_DATA gives
\* is the one of that decision, whether or not save_mail succeeds.
C15_DecisionKept ==
    \A p \in Connections :
        seen[p].decided # NoResponse =>
            /\ pc[p] \in {"done", "failed"}
            /\ response[p] = seen[p].decided

-----------------------------------------------------------------------------
(* Properties of the stored records (Spec)                                 *)

\* the record save_mail stored for the message connection p has just been
\* answered for: the newest one from its sender
StoredFor(p) ==
    LET mine == {i \in 1..Len(inbox) : inbox[i].mail_from = env[p].mail_from}
    IN inbox[CHOOSE i \in mine : \A j \in mine : j <= i]

\* what a record of the inbox table says about the decision: its label (the
\* other columns are the message's own fields, the id and the timestamp)
DecisionColumns(row) == [label |-> row.label]

\* C16: two messages decided by different reason categories have stored
\* records that differ in what they say about the decision.
C16_ReasonInRecord ==
    \A p, q \in Connections :
        (/\ pc[p] = "done"
         /\ pc[q] = "done"
         /\ response[p].reason # response[q].reason)
        => DecisionColumns(StoredFor(p)) # DecisionColumns(StoredFor(q))

\* C17: a step in which handle_DATA returns a disposition appends exactly
\* one record, the one of its message, whose label is 0 exactly when the
\* message is accepted (250) and 1 exactly when it is rejected (550); no
\* other step of an invocation stores anything.
C17_OneRecordPerReturn ==
    [][\A p \in Connections :
          /\ (pc[p] # "done" /\ pc'[p] = "done")
             => (/\ Len(inbox') = Len(inbox) + 1
                 /\ SubSeq(inbox', 1, Len(inbox)) = inbox
                 /\ LET row == inbox'[Len(inbox')] IN
                    /\ row.mail_from = env'[p].mail_from
                    /\ row.rcpt_to = Join(env'[p].rcpt_tos)
                    /\ row.subject = msg'[p].subject
                    /\ row.body = msg'[p].body
                    /\ response'[p].code \in {250, 550}
                    /\ row.label = 0 <=> response'[p].code = 250
                    /\ row.label = 1 <=> response'[p].code = 550)
          /\ (pc'[p] # pc[p] /\ pc'[p] # "done") => inbox' = inbox]_vars

\* one message was accepted and one rejected, and the inbox holds the
\* record of each
C17_Witness ==
    \E p, q \in Connections :
        /\ pc[p] = "done" /\ response[p].code = 250
        /\ pc[q] = "done" /\ response[q].code = 550
        /\ Len(inbox) = 2
        /\ StoredFor(p).label = 0
        /\ StoredFor(q).label = 1

\* C18: a step of handle_DATA leaves the whitelist, the blacklist and the
\* keywords as they are, and leaves the inbox as it is or appends one record
\* to it, the records already stored unchanged.
C18_AppendOnly ==
    [][(\E p \in Connections : pc'[p] # pc[p])
          => /\ UNCHANGED <<whitelist, blacklist, keywords>>
             /\ \/ inbox' = inbox
                \/ /\ Len(inbox') = Len(inbox) + 1
                   /\ SubSeq(inbox', 1, Len(inbox)) = inbox]_vars

\* a second record was appended behind the first while all three lists held
\* entries
C18_Witness ==
    /\ Len(inbox) = 2
    /\ inbox[1].id = 1
    /\ inbox[2].id = 2
    /\ whitelist # <<>>
    /\ blacklist # <<>>
    /\ keywords # <<>>
    /\ \E p \in Connections : pc[p] = "done" /\ StoredFor(p) = inbox[2]

-----------------------------------------------------------------------------
(* Properties of concurrent invocations (Spec)                             *)

\* a step of the invocation on connection q
StepOf(q) ==
    \/ WhitelistStage(q)
    \/ BlacklistStage(q)
    \/ KeywordStage(q)
    \/ ClassifierStage(q)
    \/ ClassifierReply(q)
    \/ Return(q)

\* C19: while the invocation of one connection is suspended in its
\* classifier call, the invocation of another connection can take its next
\* step with the first still suspended: it can send its own request, and,
\* when it is waiting itself, it can be resumed and reach its decision.
C19_OthersProgress ==
    \A p, q \in Connections :
        (p # q /\ pc[p] = "awaiting") =>
            /\ (pc[q] # "idle" \/ Received < MaxMails)
               => ENABLED (StepOf(q) /\ pc'[p] = "awaiting")
            /\ (pc[q] = "classifier" /\ ~CredentialMissing(credential))
               => ENABLED (ClassifierStage(q) /\ requests'[q] = 1
                           /\ pc'[q] = "awaiting" /\ pc'[p] = "awaiting")
            /\ pc[q] = "awaiting"
               => ENABLED (ClassifierReply(q) /\ pc'[q] = "done"
                           /\ pc'[p] = "awaiting")

\* the requests of both connections are in flight at once
C19_Witness ==
    /\ \A p \in Connections : pc[p] = "awaiting" /\ requests[p] = 1
    /\ inbox = <<>>

\* the stages in the order of the code
StageOrder == <<"whitelist", "blacklist", "keyword", "classifier">>

\* the number of stages that have run when a reply of this reason is given
StagesFor(reason) ==
    CASE reason = "whitelisted" -> 1
      [] reason = "blacklisted" -> 2
      [] reason = "keyword" -> 3
      [] OTHER -> 4

\* C20: the stages an invocation has run are an initial part of whitelist,
\* blacklist, keywords, classifier; at most one request is sent per message;
\* the classifier is reached only with the sender in neither list read and
\* no keyword read matching; and the stage that decides is the last to run.
C20_StageOrder ==
    \A p \in Connections :
        LET o == seen[p].order IN
        /\ Len(o) <= Len(StageOrder)
        /\ o = SubSeq(StageOrder, 1, Len(o))
        /\ requests[p] <= 1
        /\ (requests[p] = 1 /\ pc[p] # "failed") => Len(o) = 4
        /\ Len(o) = 4
           => /\ env[p].mail_from \notin seen[p].whitelist \cup seen[p].blacklist
              /\ \A k \in seen[p].keywords : ~CaseInsensitiveHit(k, msg[p])
        /\ (seen[p].decided # NoResponse /\ pc[p] # "failed")
           => /\ pc[p] = "done"
              /\ Len(o) = StagesFor(seen[p].decided.reason)

\* one message was decided by the whitelist stage alone, the other went
\* through all four stages and its one request
C20_Witness ==
    \E p, q \in Connections :
        /\ pc[p] = "done"
        /\ seen[p].order = <<"whitelist">>
        /\ requests[p] = 0
        /\ pc[q] = "done"
        /\ seen[q].order = StageOrder
        /\ requests[q] = 1
        /\ response[q].reason \in {"ai", "passed"}

-----------------------------------------------------------------------------
(* Properties of the rule lists across messages (Spec)                     *)

\* C21: each stage decides on the contents its table has at the moment of
\* the stage, which hold every addition and removal committed before the
\* message arrived: the sender is accepted as whitelisted exactly if the
\* whitelist holds it now, rejected as blacklisted exactly if the blacklist
\* holds it now, and rejected for a keyword exactly if a keyword of the table
\* now occurs in the message (the reads succeeding).
C21_NoCaching ==
    [][\A p \in Connections :
          /\ (pc[p] = "idle" /\ pc'[p] \in {"blacklist", "done"})
             => /\ pc'[p] = "done" <=> env'[p].mail_from \in Range(whitelist)
                /\ pc'[p] = "done" => response'[p] = R_WHITELISTED
          /\ (pc[p] = "blacklist" /\ pc'[p] \in {"keyword", "done"})
             => /\ pc'[p] = "done" <=> env[p].mail_from \in Range(blacklist)
                /\ pc'[p] = "done" => response'[p] = R_BLACKLISTED
          /\ (pc[p] = "keyword" /\ pc'[p] \in {"classifier", "done"})
             => /\ pc'[p] = "done"
                   <=> \E k \in Range(keywords) : CaseInsensitiveHit(k, msg[p])
                /\ pc'[p] = "done"
                   => /\ response'[p].reason = "keyword"
                      /\ response'[p].kw \in Range(keywords)]_vars

\* a message from a@x was rejected, a@x was then added to the whitelist, and
\* the next message from a@x is accepted as whitelisted
C21_Witness ==
    /\ Len(inbox) = 2
    /\ inbox[1].mail_from = ADDR_a
    /\ inbox[1].label = 1
    /\ adminOps = 1
    /\ whitelist = <<ADDR_a>>
    /\ pc[1] = "done"
    /\ response[1] = R_WHITELISTED
    /\ inbox[2].mail_from = ADDR_a
    /\ inbox[2].label = 0

-----------------------------------------------------------------------------
(* Properties of the part selection of parse_subject_body (SpecDecode)     *)

HasPlainPart(m) == \E i \in 1..Len(m.parts) : m.parts[i].ctype = "text/plain"

\* C22 as stated: for a multi-part payload the body is the decoding of the
\* first text/plain part, and the empty text if there is none.
C22_FirstPlainPart ==
    (/\ fnRet.kind = "return"
     /\ fnArg.content.parsed.kind = "message"
     /\ fnArg.content.parsed.multipart)
    => LET m == fnArg.content.parsed IN
       IF HasPlainPart(m)
       THEN /\ DecodePart(BodyPart(m)).ok
            /\ fnRet.body = force_unicode(DecodePart(BodyPart(m)).v.s)
       ELSE fnRet.body = <<>>

\* C22, amended: for a multi-part payload the body is the normalised
\* decoding of the first text/plain part when that part can be decoded, and
\* the empty text if there is no text/plain part; when the first text/plain
\* part cannot be decoded, the result is the fallback of a failed parse
\* (the error marker and the decoded first 1024 bytes of the raw payload).
\* A later text/plain part is used in neither case.
C22_FirstPlainPartOrFallback ==
    (/\ fnRet.kind = "return"
     /\ fnArg.content.parsed.kind = "message"
     /\ fnArg.content.parsed.multipart)
    => LET m == fnArg.content.parsed IN
       IF HasPlainPart(m)
       THEN IF DecodePart(BodyPart(m)).ok
            THEN /\ fnRet.body = force_unicode(DecodePart(BodyPart(m)).v.s)
                 /\ fnRet.subject # PARSE_ERROR
            ELSE /\ fnRet.subject = PARSE_ERROR
                 /\ fnRet.body = Utf8Decode(SubSeq(fnArg.content.raw, 1,
                        IF Len(fnArg.content.raw) < 1024
                        THEN Len(fnArg.content.raw) ELSE 1024))
       ELSE fnRet.body = <<>>

\* the first text/plain part names an unknown charset and a second one
\* holds "hi": the body is the raw payload "ok", not "hi"
C22_Witness ==
    /\ fnRet.kind = "return"
    /\ fnArg.content.parsed.kind = "message"
    /\ fnArg.content.parsed.multipart
    /\ Len(fnArg.content.parsed.parts) = 3
    /\ fnArg.content.parsed.parts[2] = Part("text/plain", Charset("x-unknown"), Payload(T_hi))
    /\ fnArg.content.parsed.parts[3] = Part("text/plain", Charset("utf-8"), Payload(T_hi))
    /\ fnArg.content.raw = T_ok
    /\ fnRet.subject = PARSE_ERROR
    /\ fnRet.body = T_ok

-----------------------------------------------------------------------------
(* Termination of an invocation (SpecLive)                                 *)

Started == {"blacklist", "keyword", "classifier", "awaiting"}

\* C23 as stated: every invocation that has started eventually ends, and no
\* invocation ends otherwise than with its decision.
C23_EndsWithDecision ==
    \A p \in Connections :
        /\ (pc[p] \in Started) ~> (pc[p] \in {"done", "failed"})
        /\ [](pc[p] # "failed")

\* C23, amended: every invocation that has started eventually ends (no
\* connection stays in the middle of an invocation from some point on; in
\* particular none waits for the classifier forever), and it ends with the
\* reply of its one decision or, when a database call raised, with that
\* exception.
C23_Terminates ==
    /\ \A p \in Connections : []<>(pc[p] \notin Started)
    /\ [](\A p \in Connections :
            /\ pc[p] = "done"
               => /\ response[p] = seen[p].decided
                  /\ response[p].code \in {250, 550}
            /\ pc[p] = "failed"
               => /\ response[p] = R_EXCEPTION
                  /\ seen[p].fault \in {"read", "store"})

\* the service stayed silent until the timeout and the message was accepted
\* as passed and stored
C23_Witness ==
    \E p \in Connections :
        /\ pc[p] = "done"
        /\ requests[p] = 1
        /\ outcome[p] = TimeoutOutcome
        /\ response[p] = R_PASSED
        /\ StoredFor(p).label = 0

-----------------------------------------------------------------------------
(* Properties of the address lists as the administrator fills them (Spec)  *)

\* the trimmed, lower-cased form of a submitted value
StoredForm(t) == Lower(Strip(t))

\* the sender differs from the stored form of a submitted address in letter
\* case only
CaseVariant(sender, t) ==
    Lower(sender) = StoredForm(t) /\ sender # StoredForm(t)

-----------------------------------------------------------------------------
(* Properties of the keywords table as the web application fills it (Spec) *)

\* C25: the keywords table never holds the empty text, which would occur in
\* every message: no invocation reads it, and no message is rejected for it.
C25_NoEmptyKeyword ==
    /\ \A i \in 1..Len(keywords) : keywords[i] # <<>>
    /\ <<>> \notin extracted
    /\ \A p \in Connections :
          /\ <<>> \notin seen[p].keywords
          /\ response[p].reason = "keyword" => response[p].kw # <<>>

\* the extraction whose reply " WIN,, a" splits into an empty piece, "WIN"
\* and "a" has added "win" alone
C25_Witness ==
    /\ adminOps = 1
    /\ extracted = {KW_win}
    /\ keywords = <<KW_win>>
    /\ \A p \in Connections : pc[p] = "idle"

\* C26: when /admin/extract-keywords answers with success, every keyword it
\* reports is in the keywords table; and a message that reaches the keyword
\* stage (its sender in neither list) and contains, in any letter case, a
\* reported keyword that is still in the table is rejected by that stage
\* with label 1 (the database calls succeeding).
C26_ExtractionFeedsFilter ==
    [][/\ extracted' # extracted => extracted' \subseteq Range(keywords')
       /\ \A p \in Connections :
             (/\ pc[p] = "keyword"
              /\ pc'[p] \notin {"keyword", "failed"}
              /\ \E k \in extracted :
                    k \in Range(keywords) /\ CaseInsensitiveHit(k, msg[p]))
             => /\ pc'[p] = "done"
                /\ response'[p].code = 550
                /\ response'[p].reason = "keyword"
                /\ response'[p].kw \in Range(keywords)
                /\ Len(inbox') = Len(inbox) + 1
                /\ inbox'[Len(inbox')].label = 1]_vars

\* "win" was extracted from the first stored message and is the only keyword
\* of the table; the next message, subject "WIN", was rejected for it
C26_Witness ==
    \E p \in Connections :
        /\ extracted = {KW_win}
        /\ keywords = <<KW_win>>
        /\ pc[p] = "done"
        /\ response[p] = R_KEYWORD(KW_win)
        /\ Len(inbox) = 2
        /\ inbox[1].label = 0
        /\ StoredFor(p) = inbox[2]
        /\ inbox[2].label = 1
        /\ inbox[2].subject = T_WIN

-----------------------------------------------------------------------------
(* database.add_to_list and remove_from_list on one table (SpecLists)      *)

MaxListOps == 4    \* calls of add_to_list and remove_from_list in one behaviour

\* "a@x", "A@x", "win"
ListValues == {ADDR_a, ADDR_A, KW_win}

ListOp(op, value) == [op |-> op, value |-> value]

\* the calls made so far are kept in fnArg, the rows before the last call in
\* fnRet; the table is the whitelist (the three rule tables have the same
\* schema and go through the same two functions)
InitLists ==
    /\ PipelineIdle
    /\ fnArg = [kind |-> "list_ops", ops |-> <<>>]
    /\ fnRet = [kind |-> "rows", rows |-> <<>>]

ListAdd ==
    /\ fnArg.kind = "list_ops"
    /\ Len(fnArg.ops) < MaxListOps
    /\ \E v \in ListValues :
          /\ whitelist' = add_to_list(whitelist, v)
          /\ fnArg' = [fnArg EXCEPT !.ops = Append(@, ListOp("add", v))]
    /\ fnRet' = [kind |-> "rows", rows |-> whitelist]
    /\ UNCHANGED <<blacklist, keywords, inbox, lastId, credential, pc, env, msg,
                   seen, outcome, response, requests, adminOps, extracted>>

ListRemove ==
    /\ fnArg.kind = "list_ops"
    /\ Len(fnArg.ops) < MaxListOps
    /\ \E v \in ListValues :
          /\ whitelist' = remove_from_list(whitelist, v)
          /\ fnArg' = [fnArg EXCEPT !.ops = Append(@, ListOp("remove", v))]
    /\ fnRet' = [kind |-> "rows", rows |-> whitelist]
    /\ UNCHANGED <<blacklist, keywords, inbox, lastId, credential, pc, env, msg,
                   seen, outcome, response, requests, adminOps, extracted>>

NextLists == ListAdd \/ ListRemove

SpecLists == InitLists /\ [][NextLists]_vars

-----------------------------------------------------------------------------
(* Properties of the rule lists as sets (SpecLists)                        *)

\* v was added by one of the calls and not removed by a later one
AddedAndKept(ops, v) ==
    \E i \in 1..Len(ops) :
        /\ ops[i] = ListOp("add", v)
        /\ \A j \in (i + 1)..Len(ops) : ops[j] # ListOp("remove", v)

\* C27: after any sequence of add_to_list and remove_from_list calls a value
\* is in the table exactly if it was added and not removed since, however
\* often it was added; the table holds each value once; and adding a value
\* that is present leaves the table as it was.
C27_ListsAreSets ==
    fnArg.kind = "list_ops" =>
        LET ops == fnArg.ops IN
        /\ \A v \in ListValues : v \in Range(whitelist) <=> AddedAndKept(ops, v)
        /\ \A i, j \in 1..Len(whitelist) : whitelist[i] = whitelist[j] => i = j
        /\ (/\ ops # <<>>
            /\ ops[Len(ops)].op = "add"
            /\ ops[Len(ops)].value \in Range(fnRet.rows))
           => whitelist = fnRet.rows

\* "a@x" was added twice, "win" once, and one removal took "a@x" out
C27_Witness ==
    /\ fnArg.kind = "list_ops"
    /\ fnArg.ops = <<ListOp("add", ADDR_a), ListOp("add", KW_win),
                    ListOp("add", ADDR_a), ListOp("remove", ADDR_a)>>
    /\ fnRet.rows = <<ADDR_a, KW_win>>
    /\ whitelist = <<KW_win>>

====
